---- MODULE Spec2Model ----
(***************************************************************************)
(* A model of locode.py, the common module of the 'loc2yaml' and           *)
(* 'loctrans' tools: parse_yml_file (merging a parsed YAML document into a *)
(* destination document), arrange_yml_nodes (ordering of mapping keys     *)
(* before the dump) and transact_copy (copying a directory of files after  *)
(* a writability check).                                                   *)
(*                                                                         *)
(* Three specifications share the module, one per operation:               *)
(*   SpecMerge    a caller merging parsed documents into one destination,  *)
(*   SpecArrange  arrange_yml_nodes applied to bounded nested documents,   *)
(*   SpecCopy     transact_copy stepping through its two loops.            *)
(***************************************************************************)
EXTENDS Integers, Sequences, FiniteSets, TLC

VARIABLES
    \* parse_yml_file
    yml_dest,     \* the destination document (a dict, a function here)
    dest_before,  \* yml_dest as it was when the call started
    yml_src,      \* the document the call loaded
    ctry_codes,   \* the country filter of the call
    at,           \* "caller", "loaded" (line 81) or "done" (the call ended)
    outcome,      \* how the call ended: "ok" or "KeyError" ("none" before)
    warnings,     \* what the call wrote to stderr
    \* arrange_yml_nodes
    yml_root,     \* the document handed to write_yml_data
    yml_other,    \* the same content with other key insertion orders
    res,          \* arrange_yml_nodes(yml_root), or NotRun
    res_other,    \* arrange_yml_nodes(yml_other), or NotRun
    res_again,    \* arrange_yml_nodes(res), or NotRun
    \* transact_copy
    src_dir,      \* name -> what the source directory holds under it
    dest_dir,     \* name -> what the destination directory holds under it
    dest_start,   \* dest_dir when transact_copy was called
    replace,      \* the replace argument
    pc,           \* "check", "copy", "done" or "error"
    todo,         \* the names of os.listdir(src_dir) not visited yet
    files,        \* the list of names that passed the check
    copied,       \* number of entries of files copied so far
    last_msg      \* the last message printed

mergeVars == <<yml_dest, dest_before, yml_src, ctry_codes, at, outcome, warnings>>
arrangeVars == <<yml_root, yml_other, res, res_other, res_again>>
copyVars == <<src_dir, dest_dir, dest_start, replace, pc, todo, files, copied, last_msg>>
vars == <<mergeVars, arrangeVars, copyVars>>

\* ------------------------------------------------------------------ bounds

\* Scalar attribute values are 1..MaxVal.
MaxVal == 2

\* A document handed to arrange_yml_nodes has at most MaxKeys top-level keys.
MaxKeys == 3

\* The directories handed to transact_copy hold MaxFiles names.
MaxFiles == 3

\* ----------------------------------------------------------------- strings

\* The characters (code points) of the strings the model uses: len(), the
\* iteration of is_upper_str and the comparison made by sorted() read them.
CodePoints(s) ==
    CASE s = "FR"      -> <<70, 82>>
      [] s = "USA"     -> <<85, 83, 65>>
      [] s = "IDF"     -> <<73, 68, 70>>
      [] s = "by"      -> <<98, 121>>
      [] s = "PAR"     -> <<80, 65, 82>>
      [] s = "muc"     -> <<109, 117, 99>>
      [] s = "name"    -> <<110, 97, 109, 101>>
      [] s = "default" -> <<100, 101, 102, 97, 117, 108, 116>>
      [] s = "flags"   -> <<102, 108, 97, 103, 115>>
      [] s = "region"  -> <<114, 101, 103, 105, 111, 110>>
      [] s = "city"    -> <<99, 105, 116, 121>>
      [] s = ".NONE"   -> <<46, 78, 79, 78, 69>>
      [] s = "a"       -> <<97>>
      [] s = "ab"      -> <<97, 98>>
      [] s = "b"       -> <<98>>
      [] s = "B"       -> <<66>>

StrLen(s) == Len(CodePoints(s))

\* str.isalpha() and str.istitle() of one ASCII character.
IsAlpha(c) == (c >= 65 /\ c <= 90) \/ (c >= 97 /\ c <= 122)
IsTitle(c) == c >= 65 /\ c <= 90

is_upper_str(s) ==
    \A i \in 1..StrLen(s) :
        ~(IsAlpha(CodePoints(s)[i]) /\ ~IsTitle(CodePoints(s)[i]))

\* ------------------------------------------------------------------- dicts

EmptyDict == [k \in {} |-> 0]

\* The value of a result variable before the call that sets it.
NotRun == [tag |-> "none"]

\* dict.update(): every key of s is set in d, the other keys of d stay.
DictUpdate(d, s) ==
    [k \in DOMAIN d \cup DOMAIN s |-> IF k \in DOMAIN s THEN s[k] ELSE d[k]]

\* dict.setdefault(k, {}) followed by a read of the entry.
SetDefault(d, k) == IF k \in DOMAIN d THEN d[k] ELSE EmptyDict

\* ---------------------------------------------------------- parse_yml_file

\* The validation loop over one country entry: the warnings it writes.
CityWarnings(src_region) ==
    IF "city" \in DOMAIN src_region
    THEN { <<"City code contains mixed case letters", city_code>> :
             city_code \in { c \in DOMAIN src_region["city"] : ~is_upper_str(c) } }
    ELSE {}

RegionWarnings(src_ctry) ==
    IF "region" \in DOMAIN src_ctry
    THEN UNION { (IF ~is_upper_str(region_code)
                  THEN { <<"Region code contains mixed case letters", region_code>> }
                  ELSE {})
                 \cup CityWarnings(src_ctry["region"][region_code]) :
                 region_code \in DOMAIN src_ctry["region"] }
    ELSE {}

CtryWarnings(ctry_code, src_ctry) ==
    IF StrLen(ctry_code) # 2
    THEN { <<"Invalid country code", ctry_code>> }  \* then `continue`
    ELSE (IF ~is_upper_str(ctry_code)
          THEN { <<"Country code contains mixed case letters", ctry_code>> }
          ELSE {})
         \cup RegionWarnings(src_ctry)

Validate(src_ctry_root) ==
    UNION { CtryWarnings(c, src_ctry_root[c]) : c \in DOMAIN src_ctry_root }

\* A variant without the test `if ctry_code in ctry_codes`.
FilteredMerge_FilterForgotten(dest_ctry_root, src_ctry_root, codes) ==
    [c \in DOMAIN dest_ctry_root \cup DOMAIN src_ctry_root |->
        IF c \in DOMAIN src_ctry_root
        THEN DictUpdate(SetDefault(dest_ctry_root, c), src_ctry_root[c])
        ELSE dest_ctry_root[c]]

\* The filtered branch: for every source code in ctry_codes,
\* dest_ctry_root.setdefault(ctry_code, {}).update(src_ctry_root[ctry_code]).
FilteredMerge(dest_ctry_root, src_ctry_root, codes) ==
    [c \in DOMAIN dest_ctry_root \cup (DOMAIN src_ctry_root \cap codes) |->
        IF c \in DOMAIN src_ctry_root \cap codes
        THEN DictUpdate(SetDefault(dest_ctry_root, c), src_ctry_root[c])
        ELSE dest_ctry_root[c]]

\* The unfiltered branch: yml_dest.update(yml_src), on the documents.
WholeMerge(dest, src) == DictUpdate(dest, src)

\* A variant that warns about the missing country key and forgets to return:
\* yml_src["country"] then raises KeyError.
parse_yml_file_ReturnForgotten(dest, src, codes) ==
    IF "country" \notin DOMAIN src
    THEN [dest |-> dest, outcome |-> "KeyError",
          warnings |-> { <<"No country data found, skipping file", "">> }]
    ELSE LET w == Validate(src["country"]) IN
         IF codes # {}
         THEN IF "country" \notin DOMAIN dest
              THEN [dest |-> dest, outcome |-> "KeyError", warnings |-> w]
              ELSE [dest |-> [dest EXCEPT !["country"] =
                                 FilteredMerge(dest["country"], src["country"], codes)],
                    outcome |-> "ok", warnings |-> w]
         ELSE [dest |-> WholeMerge(dest, src), outcome |-> "ok", warnings |-> w]

\* The call as a whole: the destination afterwards, how the call ended and
\* what it wrote to stderr.
parse_yml_file(dest, src, codes) ==
    IF "country" \notin DOMAIN src
    THEN [dest |-> dest, outcome |-> "ok",
          warnings |-> { <<"No country data found, skipping file", "">> }]
    ELSE LET w == Validate(src["country"]) IN
         IF codes # {}
         THEN IF "country" \notin DOMAIN dest
              THEN \* yml_dest["country"] raises KeyError
                   [dest |-> dest, outcome |-> "KeyError", warnings |-> w]
              ELSE [dest |-> [dest EXCEPT !["country"] =
                                 FilteredMerge(dest["country"], src["country"], codes)],
                    outcome |-> "ok", warnings |-> w]
         ELSE [dest |-> WholeMerge(dest, src), outcome |-> "ok", warnings |-> w]

\* The documents a call may load.
Codes == {"FR", "USA"}
RegionRoots ==
    { ("IDF" :> ("city" :> ("PAR" :> EmptyDict))),
      ("by" :> ("city" :> ("muc" :> EmptyDict))) }
NameParts == { EmptyDict } \cup { ("name" :> n) : n \in 1..MaxVal }
RegionParts == { EmptyDict } \cup { ("region" :> r) : r \in RegionRoots }
Entries == { a @@ b : a \in NameParts, b \in RegionParts }
CtryRoots == UNION { [cs -> Entries] : cs \in SUBSET Codes }
VersionParts == { EmptyDict, ("version" :> 1) }
SrcDocs ==
    { v @@ c : v \in VersionParts,
               c \in { EmptyDict } \cup { ("country" :> r) : r \in CtryRoots } }
Filters == SUBSET Codes

InitMerge ==
    /\ yml_dest = EmptyDict
    /\ dest_before = EmptyDict
    /\ yml_src = EmptyDict
    /\ ctry_codes = {}
    /\ at = "caller"
    /\ outcome = "none"
    /\ warnings = {}
    \* write_yml_data and transact_copy are not running
    /\ yml_root = NotRun /\ yml_other = NotRun
    /\ res = NotRun /\ res_other = NotRun /\ res_again = NotRun
    /\ src_dir = <<>> /\ dest_dir = <<>> /\ dest_start = <<>>
    /\ replace = "None" /\ pc = "idle" /\ todo = {} /\ files = <<>>
    /\ copied = 0 /\ last_msg = ""

\* Lines 77-80: the caller calls parse_yml_file(file_name, yml_dest,
\* ctry_codes) and the file is loaded into yml_src.
Open ==
    /\ at = "caller"
    /\ \E src \in SrcDocs, codes \in Filters :
          /\ yml_src' = src
          /\ ctry_codes' = codes
    /\ dest_before' = yml_dest
    /\ at' = "loaded"
    /\ UNCHANGED <<yml_dest, outcome, warnings, arrangeVars, copyVars>>

\* Lines 82-114 on the loaded document, in one step.
Run ==
    LET r == parse_yml_file(yml_dest, yml_src, ctry_codes) IN
    /\ at = "loaded"
    /\ at' = "done"
    /\ yml_dest' = r.dest
    /\ outcome' = r.outcome
    /\ warnings' = r.warnings
    /\ UNCHANGED <<dest_before, yml_src, ctry_codes, arrangeVars, copyVars>>

ParseSkipped == "country" \notin DOMAIN yml_src /\ Run

ParseFiltered == "country" \in DOMAIN yml_src /\ ctry_codes # {} /\ Run

ParseWhole == "country" \in DOMAIN yml_src /\ ctry_codes = {} /\ Run

\* The call is over: its locals are gone, the caller goes on with yml_dest.
Return ==
    /\ at = "done"
    /\ at' = "caller"
    /\ yml_src' = EmptyDict
    /\ ctry_codes' = {}
    /\ dest_before' = yml_dest
    /\ outcome' = "none"
    /\ warnings' = {}
    /\ UNCHANGED <<yml_dest, arrangeVars, copyVars>>

\* ------------------------------------------------------- arrange_yml_nodes

\* A YAML node. A mapping keeps its items in insertion order; "dict" is the
\* builtin dict that yaml.safe_load builds, "odict" an OrderedDict.
Scalar(v) == [tag |-> "scalar", val |-> v]
List(elems) == [tag |-> "list", elems |-> elems]
Dict(items) == [tag |-> "dict", items |-> items]
ODict(items) == [tag |-> "odict", items |-> items]

IsMapping(node) == node.tag \in {"dict", "odict"}
KeysOf(node) == [i \in 1..Len(node.items) |-> node.items[i][1]]
KeySet(node) == { node.items[i][1] : i \in 1..Len(node.items) }
ValueAt(node, key) ==
    node.items[CHOOSE i \in 1..Len(node.items) : node.items[i][1] = key][2]

\* res[key] = val on an OrderedDict: a new key goes to the end, a key that is
\* already there keeps its place.
OdSet(items, key, val) ==
    IF \E i \in 1..Len(items) : items[i][1] = key
    THEN [i \in 1..Len(items) |->
             IF items[i][1] = key THEN <<key, val>> ELSE items[i]]
    ELSE Append(items, <<key, val>>)

\* Comparison of two strings as Python compares them: by code point, a proper
\* prefix first.
StrLess(a, b) ==
    LET x == CodePoints(a)
        y == CodePoints(b)
    IN \E i \in 1..(Len(x) + 1) :
          /\ \A j \in 1..(i - 1) : j <= Len(y) /\ x[j] = y[j]
          /\ \/ i = Len(x) + 1 /\ Len(y) >= i
             \/ i <= Len(x) /\ i <= Len(y) /\ x[i] < y[i]

RemoveAt(seq, i) == SubSeq(seq, 1, i - 1) \o SubSeq(seq, i + 1, Len(seq))

\* sorted(yml_node.items()): the keys of a dict are distinct, so the tuples
\* are ordered by their keys.
RECURSIVE SortedItems(_)
SortedItems_Unsorted(items) == items

SortedItems(items) ==
    IF items = <<>> THEN <<>>
    ELSE LET m == CHOOSE i \in 1..Len(items) :
                    \A j \in 1..Len(items) :
                        j = i \/ StrLess(items[i][1], items[j][1])
         IN <<items[m]>> \o SortedItems(RemoveAt(items, m))

InSeq(x, seq) == \E i \in 1..Len(seq) : seq[i] = x

PARSER_HINT_TAG == "flags"
UNKNOWN_REGION_CODE == ".NONE"
\* Nodes to appear at first place, and ones to be placed at the end.
head == <<"name", "default", PARSER_HINT_TAG>>
tail == <<"region", "city", UNKNOWN_REGION_CODE>>

\* The condition of the middle loop.
IsOther_TailForgotten(key) == ~InSeq(key, head)

IsOther(key) == ~InSeq(key, head) /\ ~InSeq(key, tail)

\* type(yml_node) != type({}): only the builtin dict is arranged.
IsPlainDict(yml_node) == yml_node.tag = "dict"

RECURSIVE arrange_yml_nodes(_)
RECURSIVE ListedLoop(_, _, _, _)
RECURSIVE OthersLoop(_, _, _)
RECURSIVE arrange_Reprocessing(_)
RECURSIVE ReprocessingLoop(_, _)

\* A variant that accepts any mapping (isinstance) and takes the other keys
\* in reversed input order instead of sorted order.
ReprocessingLoop(items, i) ==
    IF i = 0 THEN <<>>
    ELSE <<<<items[i][1], arrange_Reprocessing(items[i][2])>>>>
         \o ReprocessingLoop(items, i - 1)

arrange_Reprocessing(yml_node) ==
    IF ~IsMapping(yml_node) THEN yml_node
    ELSE ODict(ReprocessingLoop(yml_node.items, Len(yml_node.items)))

\* for key in listed: if key in yml_node: res[key] = arrange_yml_nodes(...)
ListedLoop(acc, listed, i, yml_node) ==
    IF i > Len(listed) THEN acc
    ELSE ListedLoop(
            IF listed[i] \in KeySet(yml_node)
            THEN OdSet(acc, listed[i],
                       arrange_yml_nodes(ValueAt(yml_node, listed[i])))
            ELSE acc,
            listed, i + 1, yml_node)

\* for key, val in sorted(...): if key not in head and key not in tail: ...
OthersLoop(acc, sorted, i) ==
    IF i > Len(sorted) THEN acc
    ELSE OthersLoop(
            IF IsOther(sorted[i][1])
            THEN OdSet(acc, sorted[i][1], arrange_yml_nodes(sorted[i][2]))
            ELSE acc,
            sorted, i + 1)

arrange_yml_nodes(yml_node) ==
    IF ~IsPlainDict(yml_node) THEN yml_node
    ELSE LET first == ListedLoop(<<>>, head, 1, yml_node)
             middle == OthersLoop(first, SortedItems(yml_node.items), 1)
         IN ODict(ListedLoop(middle, tail, 1, yml_node))

\* The documents handed to write_yml_data: up to MaxKeys top-level keys in
\* every insertion order, with nested values.
InnerDict ==
    Dict(<< <<"city", Dict(<< <<"b", Scalar(1)>>, <<"a", Scalar(2)>> >>)>>,
            <<"b", Scalar(1)>>,
            <<"a", Scalar(2)>>,
            <<"name", Scalar(1)>> >>)
InnerList ==
    List(<< Scalar(1), Dict(<< <<"b", Scalar(1)>>, <<"a", Scalar(2)>> >>) >>)
NestedVals == << Scalar(2), InnerDict, InnerList >>

TopKeys ==
    {"name", "default", "flags", "b", "a", "ab", "B", "region", "city", ".NONE"}
KeySeqs ==
    UNION { { ks \in [1..n -> TopKeys] :
                \A i, j \in 1..n : i # j => ks[i] # ks[j] } : n \in 0..MaxKeys }
BuildDoc(ks, shift) ==
    Dict([i \in 1..Len(ks) |->
            <<ks[i], NestedVals[((i + shift) % Len(NestedVals)) + 1]>>])
Docs == { BuildDoc(ks, shift) : ks \in KeySeqs, shift \in 0..(Len(NestedVals) - 1) }

\* The same document with the keys of its mappings inserted in another order
\* (reversed, or rotated by one); inLists says whether the mappings that are
\* elements of a sequence are reordered too.
Hows == {"reverse", "rotate"}
Reorder(items, how) ==
    IF items = <<>> THEN items
    ELSE IF how = "reverse"
         THEN [i \in 1..Len(items) |-> items[Len(items) + 1 - i]]
         ELSE Append(SubSeq(items, 2, Len(items)), items[1])

RECURSIVE Shuffle(_, _, _)
Shuffle(node, how, inLists) ==
    CASE node.tag = "dict" ->
            Dict(Reorder([i \in 1..Len(node.items) |->
                            <<node.items[i][1],
                              Shuffle(node.items[i][2], how, inLists)>>], how))
      [] node.tag = "list" ->
            IF inLists
            THEN List([i \in 1..Len(node.elems) |->
                         Shuffle(node.elems[i], how, inLists)])
            ELSE node
      [] OTHER -> node

InitArrange ==
    /\ \E doc \in Docs, how \in Hows, inLists \in BOOLEAN :
          /\ yml_root = doc
          /\ yml_other = Shuffle(doc, how, inLists)
    /\ res = NotRun
    /\ res_other = NotRun
    /\ res_again = NotRun
    \* parse_yml_file and transact_copy are not running
    /\ yml_dest = EmptyDict /\ dest_before = EmptyDict /\ yml_src = EmptyDict
    /\ ctry_codes = {} /\ at = "caller" /\ outcome = "none" /\ warnings = {}
    /\ src_dir = <<>> /\ dest_dir = <<>> /\ dest_start = <<>>
    /\ replace = "None" /\ pc = "idle" /\ todo = {} /\ files = <<>>
    /\ copied = 0 /\ last_msg = ""

\* write_yml_data(yml_root, stream) arranges the document before the dump.
ArrangeRoot ==
    /\ res = NotRun
    /\ res' = arrange_yml_nodes(yml_root)
    /\ UNCHANGED <<yml_root, yml_other, res_other, res_again, mergeVars, copyVars>>

ArrangeOther ==
    /\ res_other = NotRun
    /\ res_other' = arrange_yml_nodes(yml_other)
    /\ UNCHANGED <<yml_root, yml_other, res, res_again, mergeVars, copyVars>>

\* arrange_yml_nodes applied to its own result.
ArrangeAgain ==
    /\ res # NotRun
    /\ res_again = NotRun
    /\ res_again' = arrange_yml_nodes(res)
    /\ UNCHANGED <<yml_root, yml_other, res, res_other, mergeVars, copyVars>>

\* ----------------------------------------------------------- transact_copy

\* The entries of the two directories are named 1..MaxFiles. A source entry
\* is a regular file or a directory; a destination path is absent, a writable
\* regular file, a regular file without write permission, or a directory.
Names == 1..MaxFiles
SrcKinds == {"file", "dir"}
Absent == [kind |-> "absent", data |-> "none"]
DestEntries ==
    { Absent,
      [kind |-> "file", data |-> "old"],
      [kind |-> "readonly", data |-> "old"],
      [kind |-> "dir", data |-> "none"] }
Replaces == {"None", "True", "False"}

\* os.path.exists, os.path.isfile and os.access(dest_file, os.W_OK).
Exists(entry) == entry.kind # "absent"
IsFile(entry) == entry.kind \in {"file", "readonly"}
Access(entry) == entry.kind \in {"file", "dir"}

\* The test of line 57.
Writable_AccessForgotten(entry) == ~Exists(entry) \/ IsFile(entry)

Writable(entry) == ~Exists(entry) \/ (IsFile(entry) /\ Access(entry))

\* os.listdir(src_dir): every name of the directory, in arbitrary order.
ListDir == Names

InitCopy ==
    /\ src_dir \in [Names -> SrcKinds]
    /\ dest_dir \in [Names -> DestEntries]
    /\ dest_start = dest_dir
    /\ replace \in Replaces
    /\ pc = "check"
    /\ todo = ListDir
    /\ files = <<>>
    /\ copied = 0
    /\ last_msg = ""
    \* parse_yml_file and write_yml_data are not running
    /\ yml_dest = EmptyDict /\ dest_before = EmptyDict /\ yml_src = EmptyDict
    /\ ctry_codes = {} /\ at = "caller" /\ outcome = "none" /\ warnings = {}
    /\ yml_root = NotRun /\ yml_other = NotRun
    /\ res = NotRun /\ res_other = NotRun /\ res_again = NotRun

\* First loop, an entry that is not a regular file: continue.
CheckSkip ==
    /\ pc = "check"
    /\ \E name \in todo :
          /\ src_dir[name] # "file"
          /\ todo' = todo \ {name}
    /\ UNCHANGED <<src_dir, dest_dir, dest_start, replace, pc, files, copied, last_msg,
                 mergeVars, arrangeVars>>

\* First loop, the destination can be written: files.append(...).
CheckPass ==
    /\ pc = "check"
    /\ \E name \in todo :
          /\ src_dir[name] = "file"
          /\ Writable(dest_dir[name])
          /\ files' = Append(files, name)
          /\ todo' = todo \ {name}
    /\ UNCHANGED <<src_dir, dest_dir, dest_start, replace, pc, copied, last_msg,
                 mergeVars, arrangeVars>>

\* First loop, the destination cannot be written: raise RuntimeError.
CheckFail ==
    /\ pc = "check"
    /\ \E name \in todo :
          /\ src_dir[name] = "file"
          /\ ~Writable(dest_dir[name])
    /\ pc' = "error"
    /\ last_msg' = "Unable to write to file"
    /\ UNCHANGED <<src_dir, dest_dir, dest_start, replace, todo, files, copied,
                 mergeVars, arrangeVars>>

\* The first loop is over, the second begins.
StartCopy ==
    /\ pc = "check" /\ todo = {}
    /\ pc' = "copy"
    /\ UNCHANGED <<src_dir, dest_dir, dest_start, replace, todo, files, copied, last_msg,
                 mergeVars, arrangeVars>>

Message(entry) ==
    IF replace # "None"
    THEN IF Exists(entry)
         THEN IF replace = "True" THEN "Replacing file" ELSE "Updating file"
         ELSE "Creating file"
    ELSE "Saving file"

\* Second loop: the message, then shutil.copyfile(src_file, dest_file).
CopyFile ==
    /\ pc = "copy" /\ copied < Len(files)
    /\ LET name == files[copied + 1] IN
          /\ last_msg' = Message(dest_dir[name])
          /\ dest_dir' = [dest_dir EXCEPT ![name] = [kind |-> "file", data |-> "new"]]
    /\ copied' = copied + 1
    /\ UNCHANGED <<src_dir, dest_start, replace, pc, todo, files,
                 mergeVars, arrangeVars>>

\* The second loop is over: transact_copy returns.
Finish ==
    /\ pc = "copy" /\ copied = Len(files)
    /\ pc' = "done"
    /\ UNCHANGED <<src_dir, dest_dir, dest_start, replace, todo, files, copied, last_msg,
                 mergeVars, arrangeVars>>

\* ---------------------------------------------------------- specifications

NextCopy == CheckSkip \/ CheckPass \/ CheckFail \/ StartCopy \/ CopyFile \/ Finish

SpecCopy == InitCopy /\ [][NextCopy]_vars

NextArrange == ArrangeRoot \/ ArrangeOther \/ ArrangeAgain

SpecArrange == InitArrange /\ [][NextArrange]_vars

NextMerge == Open \/ ParseSkipped \/ ParseFiltered \/ ParseWhole \/ Return

SpecMerge == InitMerge /\ [][NextMerge]_vars

\* ------------------------------------------------------------------ claims

\* The country codes of a document, none when it has no country mapping.
CodesOf(doc) == IF "country" \in DOMAIN doc THEN DOMAIN doc["country"] ELSE {}
Done == at = "done"
\* The filter lets code c through: it is empty, or it contains c.
Selected(c) == ctry_codes = {} \/ c \in ctry_codes

\* C1 (as claimed): when the destination already holds an entry for c and the
\* source holds one too, after the merge (empty filter, or a filter with c)
\* the destination's entry has the union of the keys; a key of the source
\* carries the source's value, a key of the earlier entry alone keeps its
\* value.
C1_EntryIsUnionOfAttributes ==
    \A c \in Codes :
        (Done /\ c \in CodesOf(dest_before) /\ c \in CodesOf(yml_src) /\ Selected(c))
        => /\ c \in CodesOf(yml_dest)
           /\ LET old == dest_before["country"][c]
                  inc == yml_src["country"][c]
                  new == yml_dest["country"][c]
              IN /\ DOMAIN new = DOMAIN old \cup DOMAIN inc
                 /\ \A k \in DOMAIN inc : new[k] = inc[k]
                 /\ \A k \in DOMAIN old \ DOMAIN inc : new[k] = old[k]

\* C2 (as claimed): a merge step never removes a country code from the
\* destination, whatever the filter.
C2_CountryCodesOnlyGrow ==
    Done => CodesOf(dest_before) \subseteq CodesOf(yml_dest)

\* C3 (as claimed): a source entry whose code is not 2 characters long is
\* skipped: after the merge (empty filter, or a filter with the code) the
\* destination has no entry under the code unless it had one before.
C3_InvalidCodeSkipped ==
    \A c \in Codes :
        (Done /\ c \in CodesOf(yml_src) /\ StrLen(c) # 2 /\ Selected(c))
        => (c \in CodesOf(yml_dest) => c \in CodesOf(dest_before))

\* C4: with a non-empty filter F, on a destination that has a country
\* mapping, the entries of the codes outside F are unchanged, and the codes
\* afterwards are the codes before together with the source codes in F.
\* The rest of the destination document is unchanged as well.
C4_FilterFrame ==
    (Done /\ ctry_codes # {} /\ "country" \in DOMAIN dest_before)
    => /\ outcome = "ok"
       /\ DOMAIN yml_dest = DOMAIN dest_before
       /\ \A k \in DOMAIN dest_before \ {"country"} : yml_dest[k] = dest_before[k]
       /\ CodesOf(yml_dest) = CodesOf(dest_before) \cup (CodesOf(yml_src) \cap ctry_codes)
       /\ \A c \in CodesOf(dest_before) \ ctry_codes :
             yml_dest["country"][c] = dest_before["country"][c]

\* C4 witness: a filtered merge whose source holds a code of the filter that
\* the destination lacks and a code outside the filter that the destination
\* holds with other attributes.
C4_Witness ==
    /\ Done /\ ctry_codes # {} /\ "country" \in DOMAIN dest_before
    /\ \E c \in CodesOf(yml_src) \cap ctry_codes : c \notin CodesOf(dest_before)
    /\ \E c \in (CodesOf(yml_src) \cap CodesOf(dest_before)) \ ctry_codes :
          yml_src["country"][c] # dest_before["country"][c]

\* C5 (as claimed): a filtered merge into the empty document the caller
\* created ends normally, and the destination then holds every source entry
\* whose code is in the filter.
C5_FilteredMergeOnFreshDestination ==
    (Done /\ dest_before = EmptyDict /\ ctry_codes # {})
    => /\ outcome = "ok"
       /\ \A c \in CodesOf(yml_src) \cap ctry_codes :
             /\ c \in CodesOf(yml_dest)
             /\ yml_dest["country"][c] = yml_src["country"][c]

\* C9: a source document without the country key leaves the destination as
\* it was, for any filter, and the call returns normally with a warning.
C9_NoCountryIsNoOp ==
    (Done /\ "country" \notin DOMAIN yml_src)
    => /\ yml_dest = dest_before
       /\ outcome = "ok"
       /\ warnings = { <<"No country data found, skipping file", "">> }

\* C9 witness: such a call with a filter, on a destination that holds
\* countries, with a source that holds another key the destination lacks.
C9_Witness ==
    /\ Done /\ "country" \notin DOMAIN yml_src
    /\ ctry_codes # {}
    /\ CodesOf(dest_before) # {}
    /\ DOMAIN yml_src \ DOMAIN dest_before # {}

\* The key sequence of the value under a key, none for a value that is no
\* mapping.
KeysUnder(node, key) ==
    IF IsMapping(ValueAt(node, key)) THEN KeysOf(ValueAt(node, key)) ELSE <<>>

\* The position classes of the claimed order: the head keys, the other keys,
\* the tail keys.
Position(key, listed) == CHOOSE i \in 1..Len(listed) : listed[i] = key
ClaimedBefore(a, b) ==
    LET class(k) == IF InSeq(k, <<"name", "default", "flags">>) THEN 1
                    ELSE IF InSeq(k, <<"region", "city", ".NONE">>) THEN 3 ELSE 2
    IN \/ class(a) < class(b)
       \/ /\ class(a) = 1 /\ class(b) = 1
          /\ Position(a, <<"name", "default", "flags">>)
                < Position(b, <<"name", "default", "flags">>)
       \/ class(a) = 2 /\ class(b) = 2 /\ StrLess(a, b)
       \/ /\ class(a) = 3 /\ class(b) = 3
          /\ Position(a, <<"region", "city", ".NONE">>)
                < Position(b, <<"region", "city", ".NONE">>)

\* C6: the keys of arrange_yml_nodes(m) are the keys of m, each once, with
\* name, default, flags first in that order, then the other keys in ascending
\* lexicographic order, then region, city, .NONE in that order; the mapping
\* {city, b, a, name} comes out as [name, a, b, city].
C6_KeyOrder ==
    res # NotRun
    => /\ Len(res.items) = Len(yml_root.items)
       /\ KeySet(res) = KeySet(yml_root)
       /\ \A i, j \in 1..Len(res.items) :
             i < j => ClaimedBefore(res.items[i][1], res.items[j][1])
       /\ \A key \in KeySet(yml_root) :
             KeysUnder(yml_root, key) = <<"city", "b", "a", "name">>
             => KeysUnder(res, key) = <<"name", "a", "b", "city">>

\* C6 witness: a document whose keys arrive tail key first, then two other
\* keys in descending order, has been arranged, one of its values being the
\* mapping {city, b, a, name}.
C6_Witness ==
    /\ res # NotRun
    /\ KeysOf(yml_root) = <<"city", "b", "B">>
    /\ KeysOf(res) = <<"B", "b", "city">>
    /\ \E key \in KeySet(yml_root) :
          KeysUnder(yml_root, key) = <<"city", "b", "a", "name">>

\* The key sequences of a node: of every mapping at every level of nesting
\* (KeyShape), and of the mappings that are not inside a sequence (OuterShape).
RECURSIVE KeyShape(_)
KeyShape(node) ==
    CASE IsMapping(node) ->
            [kind |-> "map",
             of |-> [i \in 1..Len(node.items) |->
                       <<node.items[i][1], KeyShape(node.items[i][2])>>]]
      [] node.tag = "list" ->
            [kind |-> "list",
             of |-> [i \in 1..Len(node.elems) |-> KeyShape(node.elems[i])]]
      [] OTHER -> [kind |-> "scalar", of |-> <<>>]

RECURSIVE OuterShape(_)
OuterShape(node) ==
    CASE IsMapping(node) ->
            [kind |-> "map",
             of |-> [i \in 1..Len(node.items) |->
                       <<node.items[i][1], OuterShape(node.items[i][2])>>]]
      [] node.tag = "list" -> [kind |-> "list", of |-> <<>>]
      [] OTHER -> [kind |-> "scalar", of |-> <<>>]

\* The sequences of a node that are reached through mappings only.
RECURSIVE OuterLists(_)
OuterLists(node) ==
    CASE IsMapping(node) ->
            UNION { OuterLists(node.items[i][2]) : i \in 1..Len(node.items) }
      [] node.tag = "list" -> { node }
      [] OTHER -> {}

BothRun == res # NotRun /\ res_other # NotRun
\* The two documents differ in the key order of mappings outside sequences only.
ListsAlike == \E how \in Hows : yml_other = Shuffle(yml_root, how, FALSE)

\* C7 (as claimed): for two documents that differ only in the insertion order
\* of the keys of their mappings, every mapping of the two results, at every
\* level of nesting, has the same key sequence.
C7_SameKeySequencesEverywhere ==
    BothRun => KeyShape(res) = KeyShape(res_other)

\* C7 (amended): every mapping of the two results that is not inside a
\* sequence has the same key sequence; a sequence is returned as it came,
\* the mappings in it with their input key order; two documents that differ
\* only outside sequences give equal results.
C7_SameKeySequencesOutsideLists ==
    BothRun
    => /\ OuterShape(res) = OuterShape(res_other)
       /\ OuterLists(res) = OuterLists(yml_root)
       /\ OuterLists(res_other) = OuterLists(yml_other)
       /\ ListsAlike => res = res_other

\* C7 witness: two documents with differently ordered keys, at the top and in
\* a nested mapping, and with a sequence that holds a mapping, were arranged
\* to equal results.
C7_Witness ==
    /\ BothRun
    /\ ListsAlike
    /\ KeysOf(yml_root) # KeysOf(yml_other)
    /\ InnerDict \in { yml_root.items[i][2] : i \in 1..Len(yml_root.items) }
    /\ InnerList \in OuterLists(yml_root)
    /\ res = res_other

\* C8: arrange_yml_nodes applied to its own result returns an equal value:
\* the same keys in the same order with the same values at every level.
C8_Idempotent ==
    res_again # NotRun => res_again = res

\* C8 witness: the second application has run on a result whose key order
\* differs from the input's, at the top and in a nested mapping.
C8_Witness ==
    /\ res_again # NotRun
    /\ Len(yml_root.items) = MaxKeys
    /\ KeysOf(res) # KeysOf(yml_root)
    /\ \E key \in KeySet(yml_root) :
          /\ KeysUnder(yml_root, key) = <<"city", "b", "a", "name">>
          /\ KeysUnder(res, key) = <<"name", "a", "b", "city">>

\* A destination path of a regular source file exists and is not a writable
\* regular file.
Blocked(name) ==
    src_dir[name] = "file" /\ dest_start[name].kind \in {"readonly", "dir"}

====
